---- MODULE Spec2Model ----
(***************************************************************************)
(* The BMICalculator component of src/src/components/BMICalculator.jsx.    *)
(*                                                                         *)
(* JavaScript strings are modelled as sequences of one-character strings,  *)
(* JavaScript numbers as exact rationals extended with +Infinity,          *)
(* -Infinity and NaN.  The arithmetic of the component is IEEE-754 double  *)
(* arithmetic; on the inputs of this model every quotient is far below     *)
(* 2^53/100, so the double result and the exact rational differ only by a  *)
(* representation error that can decide a rounding solely when the exact   *)
(* quotient lies precisely half-way between two hundredths.  toFixed       *)
(* therefore yields the set of results the double arithmetic may produce:  *)
(* one string off a tie, and at a tie the larger magnitude when both       *)
(* operands are exactly representable (dyadic), either neighbour otherwise.*)
(***************************************************************************)
EXTENDS Integers, Sequences, FiniteSets, TLC

\* height, weight, bmi, message, darkMode: the five useState cells.
\* event: the handler that ran last, kept so that properties can name it.
\* Handlers run to completion one at a time.  The submit handler is taken
\* as callable in every state: the required attributes of the fields are
\* enforced by the host's form validation, not by the component.
VARIABLES height, weight, bmi, message, darkMode, event

vars == <<height, weight, bmi, message, darkMode, event>>

(***************************************************************************)
(* Bounds and program constants.                                           *)
(***************************************************************************)
\* Longest generated input string of CalcSpec.
MaxLen == 2

\* The argument of toFixed in calculateBMI.
FractionDigits == 2

(***************************************************************************)
(* Strings.                                                                *)
(***************************************************************************)
EmptyString == <<>>

\* useState(null): distinct from every string, the empty one included.
NULL == <<"null">>

DigitChars == <<"0", "1", "2", "3", "4", "5", "6", "7", "8", "9">>

IsDigit(c) == \E i \in 1..10 : DigitChars[i] = c

DigitVal(c) == (CHOOSE i \in 1..10 : DigitChars[i] = c) - 1

DigitChar(n) == DigitChars[n + 1]

InfinityString == <<"I", "n", "f", "i", "n", "i", "t", "y">>

NaNString == <<"N", "a", "N">>

\* JavaScript truthiness of a value that is null or a string.
Truthy(v) == v # NULL /\ v # EmptyString

RECURSIVE Pow10(_)
Pow10(k) == IF k = 0 THEN 1 ELSE 10 * Pow10(k - 1)

RECURSIVE Gcd(_, _)
Gcd(a, b) == IF b = 0 THEN a ELSE Gcd(b, a % b)

Abs(n) == IF n < 0 THEN -n ELSE n

(***************************************************************************)
(* Numbers: finite rationals n/d in lowest terms, the infinities and NaN.  *)
(* A finite number is exact when the double that carries it equals the     *)
(* rational: its operands were exact and its denominator is a power of two.*)
(***************************************************************************)
NaN == [k |-> "nan", n |-> 0, d |-> 0, exact |-> TRUE]

PosInfinity == [k |-> "inf", n |-> 1, d |-> 0, exact |-> TRUE]

NegInfinity == [k |-> "inf", n |-> -1, d |-> 0, exact |-> TRUE]

RECURSIVE IsPow2(_)
IsPow2(d) == d = 1 \/ (d > 1 /\ d % 2 = 0 /\ IsPow2(d \div 2))

Fin(n, d, operandsExact) ==
    LET g == Gcd(Abs(n), d)
    IN  [k |-> "fin", n |-> n \div g, d |-> d \div g,
         exact |-> operandsExact /\ IsPow2(d \div g)]

Sign(x) == IF x.n < 0 THEN -1 ELSE IF x.n > 0 THEN 1 ELSE 0

Inf(s) == IF s < 0 THEN NegInfinity ELSE PosInfinity

\* The * operator on numbers.
Times(a, b) ==
    IF a.k = "nan" \/ b.k = "nan" THEN NaN
    ELSE IF a.k = "inf" \/ b.k = "inf"
         THEN IF Sign(a) * Sign(b) = 0 THEN NaN ELSE Inf(Sign(a) * Sign(b))
    ELSE Fin(a.n * b.n, a.d * b.d, a.exact /\ b.exact)

\* The / operator on numbers.  A zero divisor is +0 here: the only divisor
\* of the component is height * height.
Over(a, b) ==
    IF a.k = "nan" \/ b.k = "nan" THEN NaN
    ELSE IF a.k = "inf"
         THEN IF b.k = "inf" THEN NaN
              ELSE Inf(Sign(a) * (IF Sign(b) < 0 THEN -1 ELSE 1))
    ELSE IF b.k = "inf" THEN Fin(0, 1, TRUE)
    ELSE IF b.n = 0
         THEN IF a.n = 0 THEN NaN ELSE Inf(Sign(a))
    ELSE Fin(a.n * b.d * Sign(b), a.d * Abs(b.n), a.exact /\ b.exact)

\* The < operator on numbers: false as soon as an operand is NaN.
LessThan(a, b) ==
    IF a.k = "nan" \/ b.k = "nan" THEN FALSE
    ELSE IF a.k = "inf" THEN a.n < 0 /\ ~(b.k = "inf" /\ b.n < 0)
    ELSE IF b.k = "inf" THEN b.n > 0
    ELSE a.n * b.d < b.n * a.d

(***************************************************************************)
(* ToNumber on strings (StringToNumber), for strings over digits, ".",     *)
(* "-" and "+" and for the words toFixed produces.                         *)
(***************************************************************************)
RECURSIVE DigitsValue(_)
DigitsValue(s) ==
    IF s = <<>> THEN 0
    ELSE 10 * DigitsValue(SubSeq(s, 1, Len(s) - 1)) + DigitVal(s[Len(s)])

AllDigits(s) == \A i \in 1..Len(s) : IsDigit(s[i])

\* StrUnsignedDecimalLiteral without an exponent part.
UnsignedDecimal(s) ==
    LET dots == {i \in 1..Len(s) : s[i] = "."}
        p    == IF dots = {} THEN Len(s) + 1
                ELSE CHOOSE i \in dots : \A j \in dots : i <= j
        ip   == SubSeq(s, 1, p - 1)
        fp   == SubSeq(s, p + 1, Len(s))
    IN  IF AllDigits(ip) /\ AllDigits(fp) /\ Len(ip) + Len(fp) > 0
        THEN Fin(DigitsValue(ip) * Pow10(Len(fp)) + DigitsValue(fp),
                 Pow10(Len(fp)), TRUE)
        ELSE NaN

Negate(x) == IF x.k = "nan" THEN NaN ELSE [x EXCEPT !.n = -x.n]

ToNumber(s) ==
    IF s = EmptyString THEN Fin(0, 1, TRUE)
    ELSE LET signed == s[1] \in {"-", "+"}
             body   == IF signed THEN Tail(s) ELSE s
             mag    == IF body = InfinityString THEN PosInfinity
                       ELSE UnsignedDecimal(body)
         IN  IF s[1] = "-" THEN Negate(mag) ELSE mag

(***************************************************************************)
(* Number.prototype.toFixed: the strings the call may return.              *)
(***************************************************************************)
RECURSIVE IntToStr(_)
IntToStr(n) ==
    IF n < 10 THEN <<DigitChar(n)>>
    ELSE Append(IntToStr(n \div 10), DigitChar(n % 10))

RECURSIVE Zeros(_)
Zeros(k) == IF k <= 0 THEN <<>> ELSE <<"0">> \o Zeros(k - 1)

\* The digits of n, padded to f + 1 of them, with the point before the last f.
FixedDigits(n, f) ==
    LET m == Zeros(f + 1 - Len(IntToStr(n))) \o IntToStr(n)
        k == Len(m) - f
    IN  IF f = 0 THEN m
        ELSE SubSeq(m, 1, k) \o <<".">> \o SubSeq(m, k + 1, Len(m))

\* toFixed cutting the digits off instead of rounding.
NearestTruncating(x, f) == {(Abs(x.n) * Pow10(f)) \div x.d}

\* The integers n for which n / 10^f - x is as close to zero as possible,
\* x >= 0 the magnitude; of two such n an exact x takes the larger.
Nearest(x, f) ==
    LET a == Abs(x.n) * Pow10(f)
        q == a \div x.d
        r == a % x.d
    IN  IF 2 * r < x.d THEN {q}
        ELSE IF 2 * r > x.d THEN {q + 1}
        ELSE IF x.exact THEN {q + 1}
        ELSE {q, q + 1}

toFixed(x, f) ==
    IF x.k = "nan" THEN {NaNString}
    ELSE IF x.k = "inf"
         THEN {IF x.n < 0 THEN <<"-">> \o InfinityString ELSE InfinityString}
    ELSE {(IF x.n < 0 THEN <<"-">> ELSE <<>>) \o FixedDigits(n, f) :
             n \in Nearest(x, f)}

(***************************************************************************)
(* calculateBMI, lines 33-50.                                              *)
(***************************************************************************)
ErrorMessage == "Please enter valid height and weight"

Threshold1 == Fin(185, 10, TRUE)

Threshold2 == Fin(249, 10, TRUE)

Threshold3 == Fin(299, 10, TRUE)

\* bmiValue < t with bmiValue a string: the string is converted to a number.
StringLess(bmiValue, t) == LessThan(ToNumber(bmiValue), t)

\* The ladder with the conventional bounds 25 and 30.
CategoryConventional(bmiValue) ==
    IF StringLess(bmiValue, Threshold1) THEN "Underweight"
    ELSE IF StringLess(bmiValue, Fin(25, 1, TRUE)) THEN "Normal weight"
    ELSE IF StringLess(bmiValue, Fin(30, 1, TRUE)) THEN "Overweight"
    ELSE "Obese"

\* The if / else-if ladder of lines 38-46.
Category(bmiValue) ==
    IF StringLess(bmiValue, Threshold1) THEN "Underweight"
    ELSE IF StringLess(bmiValue, Threshold2) THEN "Normal weight"
    ELSE IF StringLess(bmiValue, Threshold3) THEN "Overweight"
    ELSE "Obese"

\* weight / (height * height), the operands converted from strings.
Quotient(h, w) == Over(ToNumber(w), Times(ToNumber(h), ToNumber(h)))

\* The values (weight / (height * height)).toFixed(2) may take.
BmiValues(h, w) == toFixed(Quotient(h, w), FractionDigits)

\* The condition on the numbers instead of the strings: 0 is falsy.
BothEnteredNumeric(h, w) ==
    /\ Truthy(h) /\ Truthy(w)
    /\ ToNumber(h).k # "nan" /\ ToNumber(h).n # 0
    /\ ToNumber(w).k # "nan" /\ ToNumber(w).n # 0

\* height && weight as a condition.
BothEntered(h, w) == Truthy(h) /\ Truthy(w)

(***************************************************************************)
(* The rendered view, lines 128-148.                                       *)
(***************************************************************************)
\* {bmi && ( ... )}: the result block, which holds the BMI, the message and
\* the Reset button.
ResultBlockVisible == Truthy(bmi)

\* The message paragraph of line 137 exists only inside the result block.
MessageRendered == ResultBlockVisible

\* A Reset button placed outside the result block.
ResetButtonAlways == TRUE

\* The Reset button of lines 138-145 exists only inside the result block.
ResetButtonRendered == ResultBlockVisible

(***************************************************************************)
(* Inputs.                                                                 *)
(***************************************************************************)
Chars == {"0", "1", "2", ".", "-"}

Strings(n) == UNION {[1..k -> Chars] : k \in 0..n}

ScenarioHeights ==
    { <<"1", ".", "7", "5">>, <<"1", ".", "6", "0">>, <<"1", ".", "8", "0">>,
      <<"1">>, <<"2">>, <<"0">> }

ScenarioWeights ==
    { <<"7", "0">>, <<"4", "5">>, <<"1", "0", "0">>, <<"7", "4">>,
      <<"1", "8", ".", "5">>, <<"2", "4", ".", "9">>, <<"2", "9", ".", "9">>,
      <<"1", ".", "0", "0", "5">>, <<"0", ".", "5">>, <<"-", "7", "0">>,
      <<"0">> }

CalcHeights == Strings(MaxLen) \cup ScenarioHeights

CalcWeights == Strings(MaxLen) \cup ScenarioWeights

UiHeights == {EmptyString, <<".">>} \cup ScenarioHeights

UiWeights == {EmptyString} \cup ScenarioWeights

(***************************************************************************)
(* State and handlers.                                                     *)
(***************************************************************************)
\* Lines 22-26.
Init ==
    /\ height = EmptyString
    /\ weight = EmptyString
    /\ bmi = NULL
    /\ message = ""
    /\ darkMode = FALSE
    /\ event = "mount"

\* A height field that recalculates on every keystroke.
HeightChangeLive ==
    /\ \E v \in UiHeights :
          /\ height' = v
          /\ IF BothEntered(v, weight)
             THEN \E bmiValue \in BmiValues(v, weight) :
                      /\ bmi' = bmiValue
                      /\ message' = Category(bmiValue)
             ELSE UNCHANGED <<bmi, message>>
    /\ event' = "heightChange"
    /\ UNCHANGED <<weight, darkMode>>

\* onChange of the height field, line 95.
HeightChange ==
    /\ \E v \in UiHeights : height' = v
    /\ event' = "heightChange"
    /\ UNCHANGED <<weight, bmi, message, darkMode>>

\* onChange of the weight field, line 109.
WeightChange ==
    /\ \E v \in UiWeights : weight' = v
    /\ event' = "weightChange"
    /\ UNCHANGED <<height, bmi, message, darkMode>>

\* calculateBMI clearing the result when a field is empty.
CalculateBMIClearing ==
    /\ IF BothEntered(height, weight)
       THEN \E bmiValue \in BmiValues(height, weight) :
                /\ bmi' = bmiValue
                /\ message' = Category(bmiValue)
       ELSE /\ message' = ErrorMessage
            /\ bmi' = NULL
    /\ event' = "submit"
    /\ UNCHANGED <<height, weight, darkMode>>

\* calculateBMI classifying the bmi of the last render instead of bmiValue.
CalculateBMIStale ==
    /\ IF BothEntered(height, weight)
       THEN \E bmiValue \in BmiValues(height, weight) :
                /\ bmi' = bmiValue
                /\ message' = Category(IF bmi = NULL THEN EmptyString ELSE bmi)
       ELSE /\ message' = ErrorMessage
            /\ UNCHANGED bmi
    /\ event' = "submit"
    /\ UNCHANGED <<height, weight, darkMode>>

\* onSubmit of the form: calculateBMI, lines 28-51.
CalculateBMI ==
    /\ IF BothEntered(height, weight)
       THEN \E bmiValue \in BmiValues(height, weight) :
                /\ bmi' = bmiValue
                /\ message' = Category(bmiValue)
       ELSE /\ message' = ErrorMessage
            /\ UNCHANGED bmi
    /\ event' = "submit"
    /\ UNCHANGED <<height, weight, darkMode>>

\* resetForm without its setMessage("").
ResetFormKeepingMessage ==
    /\ ResetButtonRendered
    /\ height' = EmptyString
    /\ weight' = EmptyString
    /\ bmi' = NULL
    /\ event' = "reset"
    /\ UNCHANGED <<message, darkMode>>

\* onClick of the Reset button: resetForm, lines 54-59.  The button is part
\* of the result block.
ResetForm ==
    /\ ResetButtonRendered
    /\ height' = EmptyString
    /\ weight' = EmptyString
    /\ bmi' = NULL
    /\ message' = ""
    /\ event' = "reset"
    /\ UNCHANGED darkMode

\* setDarkMode(true) in place of setDarkMode(!darkMode).
FlippedStuck(d) == TRUE

\* !darkMode, line 77.
Flipped(d) == ~d

\* onClick of the theme button, line 77.
ToggleDarkMode ==
    /\ darkMode' = Flipped(darkMode)
    /\ event' = "toggle"
    /\ UNCHANGED <<height, weight, bmi, message>>

Next ==
    \/ HeightChange
    \/ WeightChange
    \/ CalculateBMI
    \/ ResetForm
    \/ ToggleDarkMode

Spec == Init /\ [][Next]_vars

\* The calculator on its own: any pair of field contents, then submits.
CalcInit ==
    /\ height \in CalcHeights
    /\ weight \in CalcWeights
    /\ bmi = NULL
    /\ message = ""
    /\ darkMode = FALSE
    /\ event = "mount"

CalcNext == CalculateBMI

CalcSpec == CalcInit /\ [][CalcNext]_vars

(***************************************************************************)
(* Notions the properties are stated with.                                 *)
(***************************************************************************)
Labels == {"Underweight", "Normal weight", "Overweight", "Obese"}

\* A string that denotes a finite number greater than zero.
DenotesPositive(s) == ToNumber(s).k = "fin" /\ ToNumber(s).n > 0

\* Digits, a point, and exactly two digits after it.
TwoFractionDigits(s) ==
    /\ Len(s) >= 4
    /\ s[Len(s) - 2] = "."
    /\ AllDigits(SubSeq(s, 1, Len(s) - 3))
    /\ AllDigits(SubSeq(s, Len(s) - 1, Len(s)))

\* The number of hundredths a string of that form denotes.
Hundredths(s) ==
    DigitsValue(SubSeq(s, 1, Len(s) - 3) \o SubSeq(s, Len(s) - 1, Len(s)))

\* r hundredths is a hundredth nearest to w / (h * h):
\* |100 * w / h^2 - r| <= 1/2, cleared of fractions.
NearestHundredth(r, h, w) ==
    LET num == 100 * w.n * h.d * h.d
        den == w.d * h.n * h.n
    IN  2 * Abs(num - r * den) <= den

\* The classification table: 18.5, 24.9 and 29.9.
Bound185 == Fin(185, 10, TRUE)

Bound249 == Fin(249, 10, TRUE)

Bound299 == Fin(299, 10, TRUE)

AtLeast(v, t) == v.k # "nan" /\ ~LessThan(v, t)

TableAssigns(v, label) ==
    /\ label \in Labels
    /\ LessThan(v, Bound185) => label = "Underweight"
    /\ AtLeast(v, Bound185) /\ LessThan(v, Bound249) => label = "Normal weight"
    /\ AtLeast(v, Bound249) /\ LessThan(v, Bound299) => label = "Overweight"
    /\ AtLeast(v, Bound299) => label = "Obese"

\* The states of the widget's state machine.
Phase ==
    IF message = ErrorMessage THEN "ErrorShown"
    ELSE IF bmi # NULL /\ message \in Labels THEN "ResultShown"
    ELSE IF bmi = NULL /\ message = "" THEN "Empty"
    ELSE "none"

C2_TableOfRoundedValue ==
    [][(event' = "submit" /\ BothEntered(height', weight'))
          => /\ bmi' # NULL
             /\ TableAssigns(ToNumber(bmi'), message')
             /\ (bmi' = bmi /\ message \in Labels => message' = message)]_vars

\* 24.9 / 1^2 is stored as 24.90, on the bound, and is Overweight.
C2_Witness ==
    /\ event = "submit"
    /\ height = <<"1">>
    /\ weight = <<"2", "4", ".", "9">>
    /\ bmi = <<"2", "4", ".", "9", "0">>
    /\ message = "Overweight"

\* C3: in every reachable state with a bmi present and a message that is
\* not the error string, the message is the label the table gives the bmi.
C3_MessageConsistent ==
    (bmi # NULL /\ message # ErrorMessage)
        => TableAssigns(ToNumber(bmi), message)

\* A result computed for one pair of inputs, the fields edited afterwards.
C3_Witness ==
    /\ event = "heightChange"
    /\ height = EmptyString
    /\ bmi = <<"1", "7", ".", "5", "8">>
    /\ message = "Underweight"

\* C4: a submit while height or weight is the empty string sets the message
\* to the error string and leaves bmi, height, weight and darkMode as they
\* were.
C4_EmptySubmit ==
    [][(event' = "submit" /\ (height = EmptyString \/ weight = EmptyString))
          => /\ message' = ErrorMessage
             /\ bmi' = bmi
             /\ UNCHANGED <<height, weight, darkMode>>]_vars

\* A submit with the height field empty after a result was computed: the
\* result stays.
C4_Witness ==
    /\ event = "submit"
    /\ height = EmptyString
    /\ message = ErrorMessage
    /\ bmi = <<"2", "2", ".", "8", "6">>

\* C5: after a submit with a field empty the error string is the message and
\* the view renders it, whether or not a bmi has been computed.
C5_ErrorSurfaced ==
    (event = "submit" /\ ~BothEntered(height, weight))
        => message = ErrorMessage /\ MessageRendered

\* C6: Reset leaves height and weight empty, bmi absent and the message
\* empty, their initial values, whatever the state before.
C6_ResetToInitial ==
    [][event' = "reset"
          => /\ height' = EmptyString
             /\ weight' = EmptyString
             /\ bmi' = NULL
             /\ message' = ""]_vars

\* Reset after a result, in the dark theme.
C6_Witness ==
    /\ event = "reset"
    /\ darkMode
    /\ height = EmptyString /\ weight = EmptyString
    /\ bmi = NULL /\ message = ""

\* C7: a theme toggle negates darkMode and changes nothing else, a second
\* toggle would give the first darkMode back, and neither submit nor Reset
\* changes darkMode.
C7_ToggleOrthogonal ==
    [][/\ event' = "toggle"
            => /\ darkMode' = ~darkMode
               /\ Flipped(darkMode') = darkMode
               /\ UNCHANGED <<height, weight, bmi, message>>
       /\ event' \in {"submit", "reset"} => darkMode' = darkMode]_vars

\* Toggled back to the light theme with a result on display.
C7_Witness ==
    /\ event = "toggle"
    /\ ~darkMode
    /\ bmi = <<"3", "0", ".", "8", "6">>
    /\ message = "Obese"

\* C8: a change of the height field changes height and nothing else, a
\* change of the weight field changes weight and nothing else.
C8_EditsOnly ==
    [][/\ event' = "heightChange"
            => /\ height' \in UiHeights
               /\ UNCHANGED <<weight, bmi, message, darkMode>>
       /\ event' = "weightChange"
            => /\ weight' \in UiWeights
               /\ UNCHANGED <<height, bmi, message, darkMode>>]_vars

\* Both fields filled in and nothing calculated.
C8_Witness ==
    /\ event = "heightChange"
    /\ height = <<"1", ".", "7", "5">>
    /\ weight = <<"7", "0">>
    /\ bmi = NULL
    /\ message = ""

\* C9 as stated: the widget starts in Empty; the phase changes only from
\* Empty to ResultShown by a submit with both fields filled, to ErrorShown
\* by a submit with a field empty, and from ResultShown or ErrorShown to
\* Empty by Reset; and Reset can be taken in ResultShown and in ErrorShown.
C9_SpecStateMachine ==
    /\ Phase = "Empty"
    /\ [][/\ Phase' # Phase
               => \/ /\ Phase = "Empty" /\ Phase' = "ResultShown"
                     /\ event' = "submit" /\ BothEntered(height, weight)
                  \/ /\ Phase' = "ErrorShown"
                     /\ event' = "submit" /\ ~BothEntered(height, weight)
                  \/ /\ Phase \in {"ResultShown", "ErrorShown"}
                     /\ Phase' = "Empty" /\ event' = "reset"
          /\ Phase \in {"ResultShown", "ErrorShown"} => ENABLED ResetForm]_vars

\* C9 as the code has it: the widget starts in Empty and is always in one
\* of the three phases; a submit with both fields filled leads to
\* ResultShown from every phase, a submit with a field empty to ErrorShown,
\* Reset to Empty; the phase changes in no other way; and Reset can be
\* taken exactly when a bmi is present.
C9_StateMachine ==
    /\ Phase = "Empty"
    /\ [][/\ Phase \in {"Empty", "ErrorShown", "ResultShown"}
          /\ Phase' # Phase
               => \/ /\ Phase \in {"Empty", "ErrorShown"}
                     /\ Phase' = "ResultShown"
                     /\ event' = "submit" /\ BothEntered(height, weight)
                  \/ /\ Phase' = "ErrorShown"
                     /\ event' = "submit" /\ ~BothEntered(height, weight)
                  \/ /\ Phase \in {"ResultShown", "ErrorShown"}
                     /\ Phase' = "Empty" /\ event' = "reset"
          /\ event' = "submit"
               => Phase' = IF BothEntered(height, weight)
                           THEN "ResultShown" ELSE "ErrorShown"
          /\ event' = "reset" => bmi # NULL /\ Phase' = "Empty"
          /\ (ENABLED ResetForm) <=> bmi # NULL]_vars

\* ErrorShown over an earlier result: Reset can be taken.
C9_Witness ==
    /\ Phase = "ErrorShown"
    /\ event = "submit"
    /\ bmi # NULL
    /\ ENABLED ResetForm

\* C10 as stated: a submit with height "0" and a non-empty weight does not
\* set the error string, stores Infinity, -Infinity or NaN (an infinity for
\* a weight other than zero, NaN for weight zero), shows the result block
\* and classifies the result Obese.
C10_ZeroHeightObese ==
    (event = "submit" /\ height = <<"0">> /\ weight # EmptyString)
        => /\ message # ErrorMessage
           /\ bmi \in {InfinityString, <<"-">> \o InfinityString, NaNString}
           /\ (ToNumber(weight).k = "fin" /\ ToNumber(weight).n # 0)
                 => bmi # NaNString
           /\ (ToNumber(weight).k = "fin" /\ ToNumber(weight).n = 0)
                 => bmi = NaNString
           /\ ResultBlockVisible
           /\ message = "Obese"

\* C10 as the code has it: the same, except that a negative weight stores
\* -Infinity, which the first rung of the ladder classifies Underweight.
C10_ZeroHeight ==
    (event = "submit" /\ height = <<"0">> /\ weight # EmptyString)
        => /\ message # ErrorMessage
           /\ bmi \in {InfinityString, <<"-">> \o InfinityString, NaNString}
           /\ (ToNumber(weight).k = "fin" /\ ToNumber(weight).n # 0)
                 => bmi # NaNString
           /\ (ToNumber(weight).k = "fin" /\ ToNumber(weight).n = 0)
                 => bmi = NaNString
           /\ (bmi = <<"-">> \o InfinityString
                 <=> (ToNumber(weight).k = "fin" /\ ToNumber(weight).n < 0))
           /\ ResultBlockVisible
           /\ message = IF bmi = <<"-">> \o InfinityString
                        THEN "Underweight" ELSE "Obese"

\* Height "0" and weight "-70": -Infinity, Underweight.
C10_Witness ==
    /\ event = "submit"
    /\ height = <<"0">>
    /\ weight = <<"-", "7", "0">>
    /\ bmi = <<"-">> \o InfinityString
    /\ message = "Underweight"

====
